---- MODULE Spec2Model ----
(***************************************************************************)
(* State-machine model of IntentionParticleFilter                          *)
(* (src/src/mif/intention_particle_filter.py).                             *)
(*                                                                         *)
(* Particles are numbered 1..N here (0..N-1 in the code); intention        *)
(* labels keep the code's numbering 0..I-1.  Weights are exact rationals   *)
(* <<numerator, denominator>> in lowest terms, with the two IEEE special   *)
(* values the code can produce: <<0, 0>> is NaN (0/0) and <<1, 0>> is +inf.*)
(* exp(-tau*gap) is modelled with tau in units of ln 2, so that it is the  *)
(* rational 2^-(tau*gap), and it underflows to 0 once tau*gap reaches      *)
(* ExpUnderflow, as the float64 exp does for large arguments.              *)
(***************************************************************************)
EXTENDS Integers, Sequences, FiniteSets, TLC

\* ---------------------------------------------------------------- bounds
MaxI == 2
MaxP == 2
MaxN == 4
MaxGap == 2
MaxTau == 2
ExpUnderflow == 2
MaxWeightDen == 4
MaxTrialI == 3

VARIABLES
    status,          \* "new" (arguments chosen), "ready", "ctor_error"
    args,            \* [num_intentions, num_particles_per_intention, app]
    num_intentions,  \* self.num_intentions
    num_particles,   \* self.num_particles
    intention,       \* self.intention
    intention_mask,  \* self.intention_mask
    weight,          \* self.weight
    x_est,           \* self.x_est (<<>> is None)
    call_log,        \* field writes, collaborator calls and raises of the last operation, in order
    ret,             \* value returned by the last get_intention_probability (<<>>: none)
    obs_rec,         \* what an update_weight call got and saw (kept under SpecUpdate only)
    trial            \* enumeration of mutate's per-particle outcomes (SpecMutateTrials only)

vars == <<status, args, num_intentions, num_particles, intention, intention_mask,
          weight, x_est, call_log, ret, obs_rec, trial>>

filterVars == <<status, args, num_intentions, num_particles, intention, intention_mask,
                weight, x_est, call_log, ret, obs_rec>>

\* ------------------------------------------------------------- rationals
RECURSIVE GCD(_, _)
GCD(a, b) == IF b = 0 THEN a ELSE GCD(b, a % b)

NaN == <<0, 0>>
Zero == <<0, 1>>
One == <<1, 1>>

IsNaN(a) == a = NaN

Norm(n, d) ==
    IF d = 0 THEN (IF n = 0 THEN NaN ELSE <<1, 0>>)
    ELSE LET g == GCD(n, d) IN <<n \div g, d \div g>>

RMul(a, b) == IF IsNaN(a) \/ IsNaN(b) THEN NaN ELSE Norm(a[1] * b[1], a[2] * b[2])

RAdd(a, b) == IF IsNaN(a) \/ IsNaN(b) THEN NaN
              ELSE Norm(a[1] * b[2] + b[1] * a[2], a[2] * b[2])

RDiv(a, b) == IF IsNaN(a) \/ IsNaN(b) THEN NaN ELSE Norm(a[1] * b[2], a[2] * b[1])

\* IEEE comparisons: every comparison with NaN is false
RGt(a, b) == ~IsNaN(a) /\ ~IsNaN(b) /\ a[1] * b[2] > b[1] * a[2]
REq(a, b) == ~IsNaN(a) /\ ~IsNaN(b) /\ a = b

RECURSIVE RSumTo(_, _)
RSumTo(s, n) == IF n = 0 THEN Zero ELSE RAdd(RSumTo(s, n - 1), s[n])

\* the sum of a sequence, taken left to right
RSum(s) == RSumTo(s, Len(s))

RECURSIVE Pow2(_)
Pow2(n) == IF n = 0 THEN 1 ELSE 2 * Pow2(n - 1)

\* np.exp(-tau*gap)
ExpNeg(tau, g) == IF tau * g >= ExpUnderflow THEN Zero ELSE <<1, Pow2(tau * g)>>

\* ------------------------------------------------ application collaborator
\* Two collaborators: "stateless" keeps no per-particle state (x_est is None
\* and it may return any gap vector); "stateful" keeps one value in {0, 1}
\* per particle and measures the gap of each particle against the observation.
Apps == {"stateless", "stateful"}

InitializeX(app, N) ==
    IF app = "stateless" THEN <<>> ELSE [i \in 1..N |-> (i - 1) % 2]

PropagateX(app, x, int, mask) ==
    IF app = "stateless" THEN <<>>
    ELSE [i \in DOMAIN x |-> IF mask[0][i] THEN 1 - x[i] ELSE x[i]]

CompareObservation(app, x, N) ==
    IF app = "stateless" THEN [1..N -> 0..MaxGap]
    ELSE {[i \in 1..N |-> IF x[i] = o THEN 0 ELSE MaxGap] : o \in 0..1}

ResampleX(app, x, idx) ==
    IF app = "stateless" THEN <<>> ELSE [i \in DOMAIN idx |-> x[idx[i]]]

\* ------------------------------------------------------ filter, pure parts
\* labels laid out 0,1,..,I-1 repeated P times instead of in blocks
InitialIntentionTiled(I, P) == [i \in 1..(I * P) |-> (i - 1) % I]

\* np.arange(I).reshape(-1,1).dot(np.ones(P).reshape(1,-1)).reshape(-1).astype(int)
InitialIntention(I, P) == [i \in 1..(I * P) |-> (i - 1) \div P]

create_intention_mask(int, I, N) ==
    [k \in 0..(I - 1) |-> [i \in 1..N |-> int[i] = k]]

\* np.ones(N) * (1./N)
reset_weights(N) == [i \in 1..N |-> Norm(1, N)]

BoolNum(b) == IF b THEN One ELSE Zero

\* the exponent taken with the wrong sign: weight *= exp(+tau*gap)
UpdatedWeightGrowing(w, gap, tau) ==
    LET m == [i \in DOMAIN w |-> RMul(w[i], <<Pow2(tau * gap[i]), 1>>)]
        s == RSum(m)
    IN  [i \in DOMAIN w |-> RDiv(m[i], s)]

\* self.weight *= np.exp(-tau*gap); self.weight /= self.weight.sum()
UpdatedWeight(w, gap, tau) ==
    LET m == [i \in DOMAIN w |-> RMul(w[i], ExpNeg(tau, gap[i]))]
        s == RSum(m)
    IN  [i \in DOMAIN w |-> RDiv(m[i], s)]

\* np.random.choice(N, size=N) with p left out
ChoiceOutcomesIgnoringP(w, N) ==
    {[raised |-> FALSE, idx |-> v] : v \in [1..N -> 1..N]}

\* np.random.choice(N, size=N, p=weight): the index vectors it can return.
\* With NaN probabilities a current numpy raises ValueError; a numpy older
\* than the NaN check searches an all-NaN cdf and returns the first index
\* for every draw.
ChoiceOutcomes(w, N) ==
    IF \E i \in 1..N : IsNaN(w[i])
    THEN {[raised |-> TRUE, idx |-> <<>>], [raised |-> FALSE, idx |-> [i \in 1..N |-> 1]]}
    ELSE {[raised |-> FALSE, idx |-> v] : v \in [1..N -> {j \in 1..N : RGt(w[j], Zero)}]}

Gather(s, idx) == [i \in DOMAIN idx |-> s[idx[i]]]

\* (self.weight * self.intention_mask).sum(axis=1)
IntentionProbability(w, mask, I, N) ==
    [k \in 0..(I - 1) |-> RSum([i \in 1..N |-> RMul(w[i], BoolNum(mask[k][i]))])]

\* mutation_prob as <<numerator, denominator>>: the default 0.01
DefaultMutationProb == <<1, 100>>

MutationProbs == {DefaultMutationProb}

\* The uniform draw u of one particle is modelled on a grid of UGrid(I, p)
\* equal cells of [0, 1), cell c standing for its midpoint (2c+1)/(2*UGrid):
\* the threshold 1 - p*I/(I-1) is a cell boundary, so the grid has exactly
\* the measure of the continuous draw.
UGrid(I, p) == p[2] * (I - 1)

\* The threshold compared without the I/(I-1) scaling: u > 1 - p
MutationFiresUnscaled(c, I, p) ==
    (2 * c + 1) * p[2] + 2 * UGrid(I, p) * p[1] > 2 * UGrid(I, p) * p[2]

\* np.random.uniform() > 1. - mutation_prob*I/(I-1.), for u in cell c
MutationFires(c, I, p) ==
    (2 * c + 1) + 2 * p[1] * I > 2 * UGrid(I, p)

\* np.random.randint(0, I + 1, N): upper end included
RandintRangeInclusive(I) == 0..I

\* np.random.randint(0, self.num_intentions, self.num_particles)
RandintRange(I) == 0..(I - 1)

\* intention * (1-mutation_mask) + randint * mutation_mask
MutateLabel(old, fires, r) == IF fires THEN r ELSE old

\* ---------------------------------------------------------------- states
ArgSpace ==
    {a \in [num_intentions : (-1)..MaxI, num_particles_per_intention : (-1)..MaxP, app : Apps] :
        a.num_intentions * a.num_particles_per_intention <= MaxN}

NoTrial == [I |-> 0, p |-> <<0, 1>>, old |-> 0, k |-> 0, flips |-> 0]

NoObs == [gap |-> <<>>, tau |-> 0, before |-> <<>>]

Unbuilt ==
    /\ status = "new"
    /\ num_intentions = 0
    /\ num_particles = 0
    /\ intention = <<>>
    /\ intention_mask = <<>>
    /\ weight = <<>>
    /\ x_est = <<>>
    /\ call_log = <<>>
    /\ ret = <<>>
    /\ obs_rec = NoObs

Init ==
    /\ Unbuilt
    /\ args \in ArgSpace
    /\ trial = NoTrial

\* ------------------------------------------------------------- operations
\* __init__ with Python int arguments.  call_log starts with the operation
\* entered and lists its field writes, collaborator calls and raise in order.
Construct ==
    /\ status = "new"
    /\ LET I == args.num_intentions
           P == args.num_particles_per_intention
           N == I * P
       IN  /\ num_intentions' = I
           /\ num_particles' = N
           /\ IF P < 0
              THEN \* np.ones(P) raises ValueError (negative dimensions)
                   /\ status' = "ctor_error"
                   /\ call_log' = <<"__init__", "raise">>
                   /\ UNCHANGED <<intention, x_est, intention_mask, weight>>
              ELSE /\ intention' = InitialIntention(I, P)
                   /\ x_est' = InitializeX(args.app, N)
                   /\ IF I < 0
                      THEN \* np.ones((I, N)) raises ValueError in create_intention_mask
                           /\ status' = "ctor_error"
                           /\ call_log' = <<"__init__", "set_intention", "initialize_x",
                                            "raise">>
                           /\ UNCHANGED <<intention_mask, weight>>
                      ELSE /\ intention_mask' = create_intention_mask(intention', I, N)
                           /\ IF N = 0
                              THEN \* 1./self.num_particles raises ZeroDivisionError
                                   /\ status' = "ctor_error"
                                   /\ call_log' = <<"__init__", "set_intention",
                                                    "initialize_x", "set_mask", "raise">>
                                   /\ UNCHANGED weight
                              ELSE /\ weight' = reset_weights(N)
                                   /\ status' = "ready"
                                   /\ call_log' = <<"__init__", "set_intention",
                                                    "initialize_x", "set_mask",
                                                    "reset_weights">>
    /\ UNCHANGED <<args, ret, obs_rec, trial>>

predict ==
    /\ status = "ready"
    /\ x_est' = PropagateX(args.app, x_est, intention, intention_mask)
    /\ call_log' = <<"predict", "propagate_x">>
    /\ ret' = <<>>
    /\ obs_rec' = NoObs
    /\ UNCHANGED <<status, args, num_intentions, num_particles, intention,
                   intention_mask, weight, trial>>

WithinWeightBound(w) == \A i \in DOMAIN w : w[i][2] <= MaxWeightDen

update_weight_step(record) ==
    /\ status = "ready"
    /\ \E tau \in 1..MaxTau :
       \E gap \in CompareObservation(args.app, x_est, num_particles) :
          \* (w ranges over a singleton: the new weights, computed once)
          \E w \in {UpdatedWeight(weight, gap, tau)} :
              /\ WithinWeightBound(w)
              /\ weight' = w
              /\ obs_rec' = IF record THEN [gap |-> gap, tau |-> tau, before |-> weight]
                            ELSE NoObs
    /\ call_log' = <<"update_weight", "compare_observation", "set_weight">>
    /\ ret' = <<>>
    /\ UNCHANGED <<status, args, num_intentions, num_particles, intention,
                   intention_mask, x_est, trial>>

update_weight == update_weight_step(FALSE)

\* A run of update_weight calls of which the last may be kept on record
update_weight_observed ==
    /\ obs_rec = NoObs
    /\ \E record \in BOOLEAN : update_weight_step(record)

\* resample with the mask left as it was
ResampleEffectStaleMask(idx) ==
    /\ intention' = Gather(intention, idx)
    /\ intention_mask' = intention_mask
    /\ x_est' = ResampleX(args.app, x_est, idx)
    /\ weight' = reset_weights(num_particles)
    /\ call_log' = <<"resample", "choice", "set_intention", "set_mask", "resample_x",
                     "reset_weights">>

\* resample with the collaborator given the particles' own positions
ResampleEffectOwnIndices(idx) ==
    /\ intention' = Gather(intention, idx)
    /\ intention_mask' = create_intention_mask(intention', num_intentions, num_particles)
    /\ x_est' = ResampleX(args.app, x_est, [i \in DOMAIN idx |-> i])
    /\ weight' = reset_weights(num_particles)
    /\ call_log' = <<"resample", "choice", "set_intention", "set_mask", "resample_x",
                     "reset_weights">>

\* lines 149-152, for the drawn resampled_indices
ResampleEffect(idx) ==
    /\ intention' = Gather(intention, idx)
    /\ intention_mask' = create_intention_mask(intention', num_intentions, num_particles)
    /\ x_est' = ResampleX(args.app, x_est, idx)
    /\ weight' = reset_weights(num_particles)
    /\ call_log' = <<"resample", "choice", "set_intention", "set_mask", "resample_x",
                     "reset_weights">>

resample ==
    /\ status = "ready"
    /\ \E c \in ChoiceOutcomes(weight, num_particles) :
          IF c.raised
          THEN /\ call_log' = <<"resample", "raise">>
               /\ UNCHANGED <<intention, intention_mask, x_est, weight>>
          ELSE ResampleEffect(c.idx)
    /\ ret' = <<>>
    /\ obs_rec' = NoObs
    /\ UNCHANGED <<status, args, num_intentions, num_particles, trial>>

\* Cells of the uniform draw tried per particle: the lowest and the highest
USamples(I, p) == {0, UGrid(I, p) - 1}

\* The labels one particle can end with.  always: the threshold is -inf
\* (I = 1 with numpy scalars), so the particle's mask entry is set whatever u is.
MutateOutcomes(old, I, p, always) ==
    {MutateLabel(old, always \/ MutationFires(c, I, p), r) :
        c \in USamples(I, p), r \in RandintRange(I)}

\* The arrays lines 173-176 can produce: particles draw independently
MutatedIntentions(int, I, p, always) ==
    {new \in [DOMAIN int -> UNION {MutateOutcomes(int[i], I, p, always) : i \in DOMAIN int}] :
        \A i \in DOMAIN int : new[i] \in MutateOutcomes(int[i], I, p, always)}

mutate ==
    /\ status = "ready"
    /\ \E p \in MutationProbs :
          IF num_intentions = 1
          THEN \* mutation_prob*1/(1-1.): ZeroDivisionError with Python scalars;
               \* with numpy scalars it is inf and the threshold is -inf
               \/ /\ call_log' = <<"mutate", "raise">>
                  /\ UNCHANGED <<intention, intention_mask>>
               \/ /\ intention' \in MutatedIntentions(intention, num_intentions, p, TRUE)
                  /\ intention_mask' = create_intention_mask(intention', num_intentions,
                                                             num_particles)
                  /\ call_log' = <<"mutate", "set_intention", "set_mask">>
          ELSE /\ intention' \in MutatedIntentions(intention, num_intentions, p, FALSE)
               /\ intention_mask' = create_intention_mask(intention', num_intentions,
                                                          num_particles)
               /\ call_log' = <<"mutate", "set_intention", "set_mask">>
    /\ ret' = <<>>
    /\ obs_rec' = NoObs
    /\ UNCHANGED <<status, args, num_intentions, num_particles, weight, x_est, trial>>

get_intention_probability ==
    /\ status = "ready"
    /\ ret' = IntentionProbability(weight, intention_mask, num_intentions, num_particles)
    /\ call_log' = <<"get_intention_probability", "return">>
    /\ obs_rec' = NoObs
    /\ UNCHANGED <<status, args, num_intentions, num_particles, intention,
                   intention_mask, weight, x_est, trial>>

Next ==
    \/ Construct
    \/ predict
    \/ update_weight
    \/ resample
    \/ mutate
    \/ get_intention_probability

Spec == Init /\ [][Next]_vars

\* update_weight alone; obs_rec keeps what the last call of a run got and saw
NextUpdate ==
    \/ Construct
    \/ update_weight_observed

SpecUpdate == Init /\ [][NextUpdate]_vars

\* ------------------------------------------ mutate: one particle's outcomes
\* The outcomes of one particle in one mutate call are the pairs (cell of the
\* uniform draw, randint draw), all equally likely.  mutate_trial applies the
\* code's per-particle rule to outcome number trial.k and counts the outcomes
\* that leave the particle with another label than trial.old.
TrialProbs == {DefaultMutationProb, <<1, 4>>}

TrialOutcomes(t) == UGrid(t.I, t.p) * t.I

TrialSpace ==
    {t \in [I : 2..MaxTrialI, p : TrialProbs, old : 0..(MaxTrialI - 1), k : {0}, flips : {0}] :
        /\ t.old < t.I
        /\ t.p[1] * t.I <= UGrid(t.I, t.p)}

InitTrials ==
    /\ Unbuilt
    /\ args = [num_intentions |-> 1, num_particles_per_intention |-> 1, app |-> "stateless"]
    /\ trial \in TrialSpace

mutate_trial ==
    /\ trial.k < TrialOutcomes(trial)
    /\ LET c == trial.k \div trial.I
           r == trial.k % trial.I
           new == MutateLabel(trial.old, MutationFires(c, trial.I, trial.p), r)
       IN  trial' = [trial EXCEPT !.k = @ + 1,
                                  !.flips = @ + (IF new # trial.old THEN 1 ELSE 0)]
    /\ UNCHANGED filterVars

SpecMutateTrials == InitTrials /\ [][mutate_trial]_vars

\* ================================================================ claims
Op(log) == IF log = <<>> THEN "none" ELSE log[1]

Count(e, log) == Cardinality({n \in DOMAIN log : log[n] = e})

Position(e, log) == CHOOSE n \in DOMAIN log : log[n] = e

I_ == num_intentions

N_ == num_particles

Finite(a) == a[2] > 0 /\ a[1] >= 0

ValidWeights(w) ==
    /\ DOMAIN w = 1..N_
    /\ \A i \in 1..N_ : Finite(w[i])
    /\ REq(RSum(w), One)

Uniform(w) == \A i \in 1..N_ : w[i][1] * N_ = w[i][2]

MaskMatches(mask, int) ==
    /\ DOMAIN mask = 0..(I_ - 1)
    /\ DOMAIN int = 1..N_
    /\ \A k \in 0..(I_ - 1) :
          /\ DOMAIN mask[k] = 1..N_
          /\ \A i \in 1..N_ : mask[k][i] <=> (int[i] = k)
    /\ \A i \in 1..N_ :
          /\ int[i] \in 0..(I_ - 1)
          /\ Cardinality({k \in 0..(I_ - 1) : mask[k][i]}) = 1

\* the sum of weight[i] over the particles whose label is k
WeightOfLabel(k) ==
    RSum([i \in 1..N_ |-> IF intention[i] = k THEN weight[i] ELSE Zero])

\* C1: in every state of a constructed filter the weight vector has N
\* non-negative entries that sum to 1, and a get_intention_probability call
\* returns a length-I vector of non-negative entries that sum to 1, entry k
\* being the weight of the particles labelled k.
C1_WeightsAndBeliefNormalized ==
    status = "ready" =>
        /\ ValidWeights(weight)
        /\ Op(call_log) = "get_intention_probability" =>
              /\ DOMAIN ret = 0..(I_ - 1)
              /\ \A k \in 0..(I_ - 1) : Finite(ret[k]) /\ ret[k] = WeightOfLabel(k)
              /\ REq(RSum([j \in 1..I_ |-> ret[j - 1]]), One)

\* C2: after construction and after every operation the stored mask is the
\* projection of the stored intention array: mask[k][i] iff intention[i] = k,
\* every label is in 0..I-1 and every mask column has exactly one true entry.
C2_MaskIsProjection ==
    status = "ready" => MaskMatches(intention_mask, intention)

C2_Witness ==
    /\ status = "ready"
    /\ Op(call_log) = "resample"
    /\ I_ = 2
    /\ intention = <<1, 0, 1, 1>>

\* C3: a resample call from a valid weight vector that returns leaves N
\* labels, each the label of a pre-resample particle of positive weight,
\* uniform weights 1/N, and a mask matching the new labels.
C3_ResamplePostcondition ==
    [][(Op(call_log') = "resample" /\ Count("raise", call_log') = 0 /\ ValidWeights(weight)) =>
          /\ Len(intention') = N_
          /\ \A i \in 1..N_ : \E j \in 1..N_ :
                intention'[i] = intention[j] /\ RGt(weight[j], Zero)
          /\ \A i \in 1..N_ : weight'[i] = <<1, N_>>
          /\ MaskMatches(intention_mask', intention')]_vars

C3_Witness ==
    /\ status = "ready"
    /\ Op(call_log) = "resample"
    /\ args.num_intentions = 2
    /\ args.num_particles_per_intention = 2
    /\ intention = <<1, 1, 1, 1>>
    /\ Uniform(weight)

\* C4: right after a successful construction the labels are I blocks of
\* length P, block k filled with k, every weight is 1/N, the mask is one-hot
\* per column and matches the labels, and initialize_x was called exactly
\* once, its result being x_est.
C4_Construction ==
    (status = "ready" /\ Op(call_log) = "__init__") =>
        LET I == args.num_intentions
            P == args.num_particles_per_intention
        IN  /\ I_ = I
            /\ N_ = I * P
            /\ Len(intention) = I * P
            /\ \A k \in 0..(I - 1) : \A j \in 1..P : intention[k * P + j] = k
            /\ \A k \in 0..(I - 1) : Cardinality({i \in 1..N_ : intention[i] = k}) = P
            /\ \A i \in 1..N_ : weight[i] = <<1, N_>>
            /\ REq(RSum(weight), One)
            /\ MaskMatches(intention_mask, intention)
            /\ Count("initialize_x", call_log) = 1
            /\ x_est = InitializeX(args.app, N_)

C4_Witness ==
    /\ status = "ready"
    /\ Op(call_log) = "__init__"
    /\ args.num_intentions = 2
    /\ args.num_particles_per_intention = 2
    /\ args.app = "stateful"

\* the state right after an update_weight call (tau > 0) that is on record
UpdateObserved == Op(call_log) = "update_weight" /\ obs_rec.tau > 0

\* C5 as stated: after update_weight, a particle whose gap is strictly larger
\* than some other particle's has a weight not greater than before the call.
C5_LargerGapNeverGains ==
    UpdateObserved =>
        \A i \in 1..N_ : \A j \in 1..N_ :
            obs_rec.gap[i] > obs_rec.gap[j] => ~RGt(weight[i], obs_rec.before[i])

\* C5 amended: after update_weight, a particle whose gap is at least as large
\* as every other particle's has a weight not greater than before the call.
C5_LargestGapNeverGains ==
    UpdateObserved =>
        \A i \in 1..N_ :
            (\A j \in 1..N_ : obs_rec.gap[i] >= obs_rec.gap[j]) =>
                ~RGt(weight[i], obs_rec.before[i])

C5_Witness ==
    /\ UpdateObserved
    /\ \E i \in 1..N_ :
          /\ \A j \in 1..N_ : obs_rec.gap[i] >= obs_rec.gap[j]
          /\ \E j \in 1..N_ : obs_rec.gap[i] > obs_rec.gap[j]
          /\ RGt(obs_rec.before[i], weight[i])
          /\ RGt(weight[i], Zero)

\* C6: update_weight never leaves an undefined (NaN) weight stored in the
\* filter, so no later operation reads one.
C6_NoNaNWeightStored ==
    status = "ready" => \A i \in DOMAIN weight : ~IsNaN(weight[i])

\* C7: construction with num_intentions < 1 or num_particles_per_intention < 1
\* is rejected before any array is built and before the collaborator is called,
\* and never yields a filter.
C7_InvalidArgumentsRejectedFirst ==
    (args.num_intentions < 1 \/ args.num_particles_per_intention < 1) =>
        /\ status # "ready"
        /\ status = "ctor_error" =>
              /\ call_log = <<"__init__", "raise">>
              /\ intention = <<>>
              /\ intention_mask = <<>>
              /\ weight = <<>>

\* C8: mutate on a filter with one intention is a no-op or raises; either way
\* intention, mask, weight and x_est are as before the call.
C8_MutateSingleIntention ==
    [][(status = "ready" /\ I_ = 1 /\ Op(call_log') = "mutate") =>
          /\ intention' = intention
          /\ intention_mask' = intention_mask
          /\ weight' = weight
          /\ x_est' = x_est]_vars

C8_Witness ==
    /\ status = "ready"
    /\ I_ = 1
    /\ N_ = 2
    /\ call_log = <<"mutate", "set_intention", "set_mask">>

TrialDone == trial.I >= 2 /\ trial.k = TrialOutcomes(trial)

\* C9 as stated: a particle ends with another label than before with
\* probability mutation_prob*I/(I-1) (0.015 for I = 3, mutation_prob = 0.01).
C9_FlipProbabilityScaled ==
    TrialDone =>
        trial.flips * trial.p[2] * (trial.I - 1) = trial.p[1] * trial.I * TrialOutcomes(trial)

\* C9 amended: a particle ends with another label than before with
\* probability mutation_prob (0.01 for I = 3, mutation_prob = 0.01).
C9_FlipProbabilityIsMutationProb ==
    TrialDone => trial.flips * trial.p[2] = trial.p[1] * TrialOutcomes(trial)

C9_Witness ==
    /\ TrialDone
    /\ trial.I = 3
    /\ trial.p = <<1, 100>>
    /\ trial.flips * 100 = TrialOutcomes(trial)

\* C10: a resample call that returns has gathered intention and the
\* collaborator's x_est by one index vector over particles the draw can pick,
\* calling resample_x exactly once, after intention and mask were written and
\* before the weights were reset; a resample call that raises moves neither.
C10_ResampleMovesContainersTogether ==
    [][Op(call_log') = "resample" =>
          IF Count("raise", call_log') > 0
          THEN intention' = intention /\ x_est' = x_est
          ELSE /\ \A i \in 1..N_ : \E j \in 1..N_ :
                     /\ IsNaN(weight[j]) \/ RGt(weight[j], Zero)
                     /\ intention'[i] = intention[j]
                     /\ args.app = "stateful" => x_est'[i] = x_est[j]
               /\ Count("choice", call_log') = 1
               /\ Count("resample_x", call_log') = 1
               /\ Position("set_intention", call_log') < Position("resample_x", call_log')
               /\ Position("set_mask", call_log') < Position("resample_x", call_log')
               /\ Position("resample_x", call_log') < Position("reset_weights", call_log')]_vars

C10_Witness ==
    /\ status = "ready"
    /\ Op(call_log) = "resample"
    /\ args.app = "stateful"
    /\ intention = <<1, 0, 0, 1>>
    /\ x_est = <<0, 1, 0, 1>>

====
